---- MODULE Spec2Model ----
(***************************************************************************)
(* A model of the Expense Tracker (src/main.py): the JSON record store     *)
(* (load_expenses / save_expenses), the three validators, the Add Expense  *)
(* form, the Manage Expenses page (single delete, two-step clear) and the  *)
(* per-category table of the Analytics page.                               *)
(*                                                                         *)
(* Python strings are sequences of one-character strings, Python values    *)
(* are tagged records (PyInt, PyStr, PyList, PyDict, PyNone), and the      *)
(* backing file holds the JSON text as a sequence of tokens, so that       *)
(* json.dump and json.load are two different conversions.                  *)
(***************************************************************************)
EXTENDS Integers, Sequences, FiniteSets, TLC

VARIABLES
    file,           \* ./data/expenses.json: [exists, content]
    page,           \* the sidebar radio's selection
    confirm_clear,  \* st.session_state['confirm_clear']: "absent", "True", "False"
    message,        \* the banner left on screen by the last script run
    last            \* the last operation: its name, inputs, store before, outcome

vars == <<file, page, confirm_clear, message, last>>

(***************************************************************************)
(* Bounds of the model.                                                    *)
(***************************************************************************)
MaxLen == 3

(***************************************************************************)
(* Characters and Python's str methods.                                    *)
(***************************************************************************)
LowerCase ==
    <<"a","b","c","d","e","f","g","h","i","j","k","l","m",
      "n","o","p","q","r","s","t","u","v","w","x","y","z">>

UpperCase ==
    <<"A","B","C","D","E","F","G","H","I","J","K","L","M",
      "N","O","P","Q","R","S","T","U","V","W","X","Y","Z">>

DigitChars == <<"0","1","2","3","4","5","6","7","8","9">>

\* Position of c in seq, 0 when absent.
IndexOf(c, seq) ==
    IF \E i \in DOMAIN seq : seq[i] = c
    THEN CHOOSE i \in DOMAIN seq : seq[i] = c
    ELSE 0

\* The letters of Latin-1 that come in pairs, lower case and upper case.
LatinLower ==
    <<"à","á","â","ã","ä","å","æ","ç","è","é","ê","ë","ì","í","î","ï",
      "ð","ñ","ò","ó","ô","õ","ö","ø","ù","ú","û","ü","ý","þ">>

LatinUpper ==
    <<"À","Á","Â","Ã","Ä","Å","Æ","Ç","È","É","Ê","Ë","Ì","Í","Î","Ï",
      "Ð","Ñ","Ò","Ó","Ô","Õ","Ö","Ø","Ù","Ú","Û","Ü","Ý","Þ">>

\* The characters that are no letters: the rest of printable ASCII (but the
\* grave accent) and of Latin-1.
OtherChars ==
    { DigitChars[i] : i \in DOMAIN DigitChars } \cup
    { " ", "!", "\"", "#", "$", "%", "&", "'", "(", ")", "*", "+", ",", "-", ".",
      "/", ":", ";", "<", "=", ">", "?", "@", "[", "\\", "]", "^", "_", "{",
      "|", "}", "~",
      "¡", "¢", "£", "¤", "¥", "¦", "§", "¨", "©", "«", "¬", "®", "¯", "°", "±",
      "²", "³", "´", "¶", "·", "¸", "¹", "»", "¼", "½", "¾", "¿", "×", "÷" }

\* One character of the Unicode database: its general category (Lu, Ll, Lt, Lm,
\* Lo for the letters, "--" for every other) and its lower-case and title-case
\* forms, each a string.
Letter(ch, class, lower, title) ==
    [ch |-> ch, class |-> class, lower |-> lower, title |-> title]

\* The characters of the model: printable ASCII, Latin-1 (ÿ left out, its
\* title case U+0178 is no character a string here can hold), and letters
\* beyond whose case forms are two letters (ß), a title-case letter (ǅ), a
\* letter of another block (µ), position dependent (Σ) or the letter itself.
\* The str methods below are defined on strings of these characters only.
LetterTable ==
    { Letter(LowerCase[i], "Ll", <<LowerCase[i]>>, <<UpperCase[i]>>) : i \in DOMAIN LowerCase }
    \cup
    { Letter(UpperCase[i], "Lu", <<LowerCase[i]>>, <<UpperCase[i]>>) : i \in DOMAIN UpperCase }
    \cup
    { Letter(LatinLower[i], "Ll", <<LatinLower[i]>>, <<LatinUpper[i]>>) : i \in DOMAIN LatinLower }
    \cup
    { Letter(LatinUpper[i], "Lu", <<LatinLower[i]>>, <<LatinUpper[i]>>) : i \in DOMAIN LatinUpper }
    \cup
    { Letter("ß", "Ll", <<"ß">>, <<"S", "s">>),
      Letter("µ", "Ll", <<"µ">>, <<"Μ">>),
      Letter("μ", "Ll", <<"μ">>, <<"Μ">>),
      Letter("Μ", "Lu", <<"μ">>, <<"Μ">>),
      Letter("α", "Ll", <<"α">>, <<"Α">>),
      Letter("Α", "Lu", <<"α">>, <<"Α">>),
      Letter("σ", "Ll", <<"σ">>, <<"Σ">>),
      Letter("ς", "Ll", <<"ς">>, <<"Σ">>),
      Letter("Σ", "Lu", <<"σ">>, <<"Σ">>),
      Letter("ǆ", "Ll", <<"ǆ">>, <<"ǅ">>),
      Letter("ǅ", "Lt", <<"ǆ">>, <<"ǅ">>),
      Letter("Ǆ", "Lu", <<"ǆ">>, <<"ǅ">>),
      Letter("ª", "Lo", <<"ª">>, <<"ª">>),
      Letter("º", "Lo", <<"º">>, <<"º">>),
      Letter("ƻ", "Lo", <<"ƻ">>, <<"ƻ">>),
      Letter("ʰ", "Lm", <<"ʰ">>, <<"ʰ">>) }
    \cup
    { Letter(c, "--", <<c>>, <<c>>) : c \in OtherChars }

LetterOf(c) == CHOOSE r \in LetterTable : r.ch = c

\* c.isalpha() for one character: its general category is one of the letters'.
IsAlphaChar(c) == LetterOf(c).class \in {"Lu", "Ll", "Lt", "Lm", "Lo"}

\* The characters with the properties Cased and Case_Ignorable, which decide
\* the lower case of Σ.
IsCased(c) == LetterOf(c).class \in {"Lu", "Ll", "Lt"} \/ c \in {"ª", "º"}

IsCaseIgnorable(c) ==
    c \in {"'", ".", ":", "^", "¨", "¯", "´", "·", "¸", "ʰ"}

\* Σ at position i of s ends a word: the nearest character before it that is
\* not case-ignorable is cased, and the nearest such character after it, if
\* any, is not.
FinalSigma(s, i) ==
    LET before == { j \in 1..(i - 1) : ~IsCaseIgnorable(s[j]) }
        after == { j \in (i + 1)..Len(s) : ~IsCaseIgnorable(s[j]) }
    IN  /\ before # {}
        /\ IsCased(s[CHOOSE j \in before : \A k \in before : k <= j])
        /\ \/ after = {}
           \/ ~IsCased(s[CHOOSE j \in after : \A k \in after : j <= k])

\* The lower case of the character at position i of s.
LowerOf(s, i) ==
    IF s[i] = "Σ" /\ FinalSigma(s, i) THEN <<"ς">> ELSE LetterOf(s[i]).lower

\* c.title() for one character.
TitleOf(c) == LetterOf(c).title

\* str.isalpha(): non-empty and every character a letter.
IsAlpha(s) == s # <<>> /\ \A i \in DOMAIN s : IsAlphaChar(s[i])

\* The lower case of s from position i on, as str.capitalize() takes it for the
\* characters after the first.
RECURSIVE LowerFrom(_, _)
LowerFrom(s, i) ==
    IF i > Len(s) THEN <<>> ELSE LowerOf(s, i) \o LowerFrom(s, i + 1)

\* str.capitalize(): the first character in title case, the rest in lower case.
Capitalize(s) ==
    IF s = <<>> THEN <<>> ELSE TitleOf(s[1]) \o LowerFrom(s, 2)

(***************************************************************************)
(* Python values.                                                          *)
(***************************************************************************)
PyNone == [ty |-> "None", n |-> 0, s |-> <<>>, items |-> <<>>]

PyInt(k) == [ty |-> "int", n |-> k, s |-> <<>>, items |-> <<>>]

PyStr(str) == [ty |-> "str", n |-> 0, s |-> str, items |-> <<>>]

PyList(xs) == [ty |-> "list", n |-> 0, s |-> <<>>, items |-> xs]

\* One key: value entry of a dict; a dict keeps its entries in insertion order.
PyItem(key, v) == [ty |-> "item", n |-> 0, s |-> key, items |-> <<v>>]

PyDict(entries) == [ty |-> "dict", n |-> 0, s |-> <<>>, items |-> entries]

\* d[key] for a key the dict holds.
Get(d, key) ==
    LET i == CHOOSE j \in DOMAIN d.items : d.items[j].s = key
    IN  d.items[i].items[1]

\* d[key] = v: replaces the value in place, or appends a new entry.
DictSet(entries, key, v) ==
    IF \E j \in DOMAIN entries : entries[j].s = key
    THEN [j \in DOMAIN entries |->
            IF entries[j].s = key THEN PyItem(key, v) ELSE entries[j]]
    ELSE Append(entries, PyItem(key, v))

KeyCategory == <<"C","a","t","e","g","o","r","y">>

KeyAmount == <<"A","m","o","u","n","t">>

KeyDescription == <<"D","e","s","c","r","i","p","t","i","o","n">>

KeyDate == <<"D","a","t","e">>

(***************************************************************************)
(* JSON text as tokens, json.dump and json.load.                           *)
(***************************************************************************)
Punct(c) == [k |-> "punct", s |-> <<c>>, n |-> 0]

StrTok(str) == [k |-> "str", s |-> str, n |-> 0]

NumTok(v) == [k |-> "num", s |-> <<>>, n |-> v]

NullTok == [k |-> "null", s |-> <<>>, n |-> 0]

\* Bytes that do not decode as text.
BadBytes == [k |-> "bad", s |-> <<>>, n |-> 0]

RECURSIVE DumpValue(_), DumpElements(_), DumpMembers(_)
\* json.dump's text for a value.
DumpValue(v) ==
    CASE v.ty = "int"  -> <<NumTok(v.n)>>
      [] v.ty = "str"  -> <<StrTok(v.s)>>
      [] v.ty = "None" -> <<NullTok>>
      [] v.ty = "list" -> <<Punct("[")>> \o DumpElements(v.items) \o <<Punct("]")>>
      [] v.ty = "dict" -> <<Punct("{")>> \o DumpMembers(v.items) \o <<Punct("}")>>

DumpElements(xs) ==
    IF xs = <<>> THEN <<>>
    ELSE IF Len(xs) = 1 THEN DumpValue(xs[1])
    ELSE DumpValue(xs[1]) \o <<Punct(",")>> \o DumpElements(Tail(xs))

DumpMembers(es) ==
    IF es = <<>> THEN <<>>
    ELSE LET one == <<StrTok(es[1].s), Punct(":")>> \o DumpValue(es[1].items[1])
         IN  IF Len(es) = 1 THEN one
             ELSE one \o <<Punct(",")>> \o DumpMembers(Tail(es))

ParseFail == [ok |-> FALSE, val |-> PyNone, pos |-> 0]

ParseOk(v, p) == [ok |-> TRUE, val |-> v, pos |-> p]

RECURSIVE ParseValue(_, _), ParseElements(_, _, _), ParseMembers(_, _, _)
\* The JSON value that starts at token i, and the position after it.
ParseValue(t, i) ==
    IF i > Len(t) THEN ParseFail
    ELSE CASE t[i].k = "num"  -> ParseOk(PyInt(t[i].n), i + 1)
           [] t[i].k = "str"  -> ParseOk(PyStr(t[i].s), i + 1)
           [] t[i].k = "null" -> ParseOk(PyNone, i + 1)
           [] t[i] = Punct("[") ->
                IF i + 1 <= Len(t) /\ t[i + 1] = Punct("]")
                THEN ParseOk(PyList(<<>>), i + 2)
                ELSE ParseElements(t, i + 1, <<>>)
           [] t[i] = Punct("{") ->
                IF i + 1 <= Len(t) /\ t[i + 1] = Punct("}")
                THEN ParseOk(PyDict(<<>>), i + 2)
                ELSE ParseMembers(t, i + 1, <<>>)
           [] OTHER -> ParseFail

\* The rest of an array: a value at i, then "," and more, or "]".
ParseElements(t, i, acc) ==
    LET r == ParseValue(t, i)
    IN  IF ~r.ok \/ r.pos > Len(t) THEN ParseFail
        ELSE IF t[r.pos] = Punct(",")
             THEN ParseElements(t, r.pos + 1, Append(acc, r.val))
        ELSE IF t[r.pos] = Punct("]")
             THEN ParseOk(PyList(Append(acc, r.val)), r.pos + 1)
        ELSE ParseFail

\* The rest of an object: a string key at i, ":", a value, then "," or "}".
ParseMembers(t, i, acc) ==
    IF i + 1 > Len(t) \/ t[i].k # "str" \/ t[i + 1] # Punct(":") THEN ParseFail
    ELSE LET r == ParseValue(t, i + 2)
         IN  IF ~r.ok \/ r.pos > Len(t) THEN ParseFail
             ELSE IF t[r.pos] = Punct(",")
                  THEN ParseMembers(t, r.pos + 1, DictSet(acc, t[i].s, r.val))
             ELSE IF t[r.pos] = Punct("}")
                  THEN ParseOk(PyDict(DictSet(acc, t[i].s, r.val)), r.pos + 1)
             ELSE ParseFail

\* json.load on decoded text: the value, or JSONDecodeError (ok = FALSE) when the
\* text is no JSON value or is followed by extra data.
JsonLoad(t) ==
    LET r == ParseValue(t, 1)
    IN  IF r.ok /\ r.pos = Len(t) + 1 THEN r ELSE ParseFail

(***************************************************************************)
(* The record store.                                                       *)
(***************************************************************************)
Return(v) == [raised |-> "", value |-> v]

Raise(e) == [raised |-> e, value |-> PyNone]

NoFile == [exists |-> FALSE, content |-> <<>>]

LoadExpenses(f) ==
    IF ~f.exists THEN Return(PyList(<<>>))
    ELSE IF \E i \in DOMAIN f.content : f.content[i] = BadBytes
         THEN Raise("UnicodeDecodeError")
    ELSE LET r == JsonLoad(f.content)
         IN  IF r.ok THEN Return(r.val) ELSE Return(PyList(<<>>))

\* open(EXPENSES_FILE, "a") in place of "w": the text is added to the old content.
SaveAppend(f, expenses) ==
    [exists |-> TRUE, content |-> f.content \o DumpValue(expenses)]

\* open(EXPENSES_FILE, "w") truncates; the dumped text is the whole content.
SaveExpenses(f, expenses) == [exists |-> TRUE, content |-> DumpValue(expenses)]

(***************************************************************************)
(* The validators.  A result is [ok, msg], the pair the code returns.      *)
(***************************************************************************)
Pass == [ok |-> TRUE, msg |-> ""]

Reject(m) == [ok |-> FALSE, msg |-> m]

validate_category(category) ==
    IF category = <<>> THEN Reject("Category cannot be empty.")
    ELSE IF ~IsAlpha(category) THEN Reject("Category must contain only letters.")
    ELSE Pass

\* The number widget's value is a float, here the fraction num/den with den > 0,
\* so amount <= 0 is num <= 0 and the comparison never raises.
validate_amount(amount) ==
    IF amount.num <= 0 THEN Reject("Amount must be greater than 0.")
    ELSE Pass

validate_description(description) ==
    IF description = <<>> THEN Reject("Description cannot be empty.")
    ELSE IF Len(description) < 5
         THEN Reject("Description must be at least 5 characters.")
    ELSE Pass

(***************************************************************************)
(* Conversions of the Add Expense form.                                    *)
(***************************************************************************)
\* int(amount): truncation toward zero.
IntOf(amount) ==
    IF amount.num >= 0 THEN amount.num \div amount.den
    ELSE -((-amount.num) \div amount.den)

Digit(k) == DigitChars[k + 1]

DigitVal(c) == IndexOf(c, DigitChars) - 1

\* str(date): the ISO form YYYY-MM-DD, zero padded.
DateStr(dt) ==
    << Digit(dt.y \div 1000), Digit((dt.y \div 100) % 10),
       Digit((dt.y \div 10) % 10), Digit(dt.y % 10), "-",
       Digit(dt.m \div 10), Digit(dt.m % 10), "-",
       Digit(dt.d \div 10), Digit(dt.d % 10) >>

\* pd.to_datetime on an ISO date string.
ToDatetime(str) ==
    [ y |-> DigitVal(str[1]) * 1000 + DigitVal(str[2]) * 100
              + DigitVal(str[3]) * 10 + DigitVal(str[4]),
      m |-> DigitVal(str[6]) * 10 + DigitVal(str[7]),
      d |-> DigitVal(str[9]) * 10 + DigitVal(str[10]) ]

\* The order of two timestamps.
DateLess(a, b) ==
    \/ a.y < b.y
    \/ a.y = b.y /\ a.m < b.m
    \/ a.y = b.y /\ a.m = b.m /\ a.d < b.d

\* The dict the form appends.
NewExpense(category, amount, description, expense_date) ==
    PyDict(<< PyItem(KeyCategory, PyStr(Capitalize(category))),
              PyItem(KeyAmount, PyInt(IntOf(amount))),
              PyItem(KeyDescription, PyStr(description)),
              PyItem(KeyDate, PyStr(DateStr(expense_date))) >>)

\* AddOutcome with the amount checked before the category.
AddOutcomeAmountFirst(category, amount, description) ==
    IF ~validate_amount(amount).ok THEN validate_amount(amount).msg
    ELSE IF ~validate_category(category).ok THEN validate_category(category).msg
    ELSE IF ~validate_description(description).ok
         THEN validate_description(description).msg
    ELSE ""

\* The first failing validator's message in the order of the if/elif chain,
\* "" when all three pass.
AddOutcome(category, amount, description) ==
    IF ~validate_category(category).ok THEN validate_category(category).msg
    ELSE IF ~validate_amount(amount).ok THEN validate_amount(amount).msg
    ELSE IF ~validate_description(description).ok
         THEN validate_description(description).msg
    ELSE ""

(***************************************************************************)
(* Python list operations.                                                 *)
(***************************************************************************)
\* list.insert(0, e) in place of list.append.
ListPrepend(expenses, e) == PyList(<<e>> \o expenses.items)

\* list.append
ListAppend(expenses, e) == PyList(Append(expenses.items, e))

\* xs without its element at position p (1-based).
RemoveAt(xs, p) == SubSeq(xs, 1, p - 1) \o SubSeq(xs, p + 1, Len(xs))

\* list.pop() in place of list.pop(i).
ListPopLast(expenses, i) ==
    IF expenses.items = <<>> THEN Raise("IndexError")
    ELSE Return(PyList(RemoveAt(expenses.items, Len(expenses.items))))

\* list.pop(i): an index in -len..len-1 removes an element, a negative one
\* counting from the end; any other raises IndexError.
ListPop(expenses, i) ==
    LET size == Len(expenses.items)
    IN  IF i >= size \/ i < -size THEN Raise("IndexError")
        ELSE IF i >= 0 THEN Return(PyList(RemoveAt(expenses.items, i + 1)))
        ELSE Return(PyList(RemoveAt(expenses.items, size + i + 1)))

(***************************************************************************)
(* The Manage Expenses listing.                                            *)
(***************************************************************************)
Perms(k) == { f \in [1..k -> 1..k] : \A i, j \in 1..k : i # j => f[i] # f[j] }

\* df.sort_values('Date', ascending=False): the listings it can produce, each a
\* sequence of load-order positions (1-based), newest date first.  The sort is
\* numpy's quicksort, which fixes no order among equal dates.
DateDescending(expenses) ==
    LET when(i) == ToDatetime(Get(expenses.items[i], KeyDate).s)
    IN  { f \in Perms(Len(expenses.items)) :
            \A i, j \in DOMAIN f : i < j => ~DateLess(when(f[i]), when(f[j])) }

(***************************************************************************)
(* The session: what the user can enter and select.                        *)
(***************************************************************************)
Pages == {"Add Expense", "View All", "By Category", "Manage Expenses", "Analytics"}

Categories == { <<>>, <<"f","1">>, <<"f","O","O","d">> }

Amounts == { [num |-> 0, den |-> 1], [num |-> 1, den |-> 2], [num |-> 3, den |-> 2] }

Descriptions == { <<>>, <<"a","b","c","d">>, <<"l","u","n","c","h">> }

Dates == { [y |-> 2024, m |-> 1, d |-> 2], [y |-> 2024, m |-> 12, d |-> 1] }

NoMessage == [kind |-> "none", text |-> ""]

Banner(kind, text) == [kind |-> kind, text |-> text]

Truthy(flag) == flag = "True"

\* bool(v), the test of "if not expenses".
PyTruthy(v) ==
    CASE v.ty = "None" -> FALSE
      [] v.ty = "int" -> v.n # 0
      [] v.ty = "str" -> v.s # <<>>
      [] OTHER -> v.items # <<>>

\* A list of dicts, what the pages take the loaded value to be.
IsCollection(v) == v.ty = "list" /\ \A i \in DOMAIN v.items : v.items[i].ty = "dict"

\* What the page function of p leaves on screen when it renders store f and no
\* button was pressed.  The Add Expense form loads nothing and shows nothing.
\* The other pages load the store: an exception of load_expenses ends the run;
\* a falsy value gets the notice of "if not expenses"; a value that is no list
\* fails in pd.DataFrame and a list of other things than dicts has no 'Date' or
\* 'Category' column; a collection of records is listed.  The count warning of
\* the Manage page is not part of the message.
PageBanner(p, f) ==
    LET r == LoadExpenses(f)
    IN  IF p = "Add Expense" THEN NoMessage
        ELSE IF r.raised # "" THEN Banner("exception", r.raised)
        ELSE IF ~PyTruthy(r.value)
             THEN IF p = "Manage Expenses"
                  THEN Banner("info", "No expenses recorded yet. Nothing to delete!")
                  ELSE Banner("info", "No expenses recorded yet. Add one to get started!")
        ELSE IF r.value.ty # "list" THEN Banner("exception", "ValueError")
        ELSE IF ~IsCollection(r.value) THEN Banner("exception", "KeyError")
        ELSE NoMessage

Init ==
    /\ file = NoFile
    /\ page = "Add Expense"
    /\ confirm_clear = "absent"
    /\ message = NoMessage
    /\ last = [op |-> "start", before |-> NoFile, effect |-> "none"]

\* The sidebar radio: the script reruns and renders the selected page.
Navigate(p) ==
    /\ p # page
    /\ page' = p
    /\ message' = PageBanner(p, file)
    /\ last' = [op |-> "navigate", before |-> file, effect |-> "none"]
    /\ UNCHANGED <<file, confirm_clear>>

\* "Save Expense" on the Add Expense form.
SubmitAdd(category, amount, description, expense_date) ==
    /\ page = "Add Expense"
    /\ LET error == AddOutcome(category, amount, description)
           expenses == LoadExpenses(file).value
       IN  /\ error = "" => Len(expenses.items) < MaxLen
           /\ IF error # ""
              THEN /\ message' = Banner("error", error)
                   /\ file' = file
              ELSE /\ file' = SaveExpenses(file,
                                ListAppend(expenses,
                                    NewExpense(category, amount, description,
                                               expense_date)))
                   /\ message' = Banner("success", "Expense added successfully!")
           /\ last' = [op |-> "add", before |-> file,
                       effect |-> IF error = "" THEN "saved" ELSE "rejected",
                       category |-> category, amount |-> amount,
                       description |-> description, date |-> expense_date]
    /\ UNCHANGED <<page, confirm_clear>>

\* "Delete" on the Manage page with option k of the select box chosen; the
\* select box offers range(len(expense_options)).  st.rerun() follows the save:
\* the success banner goes and the page renders the new store.
DeleteSelected(k) ==
    /\ page = "Manage Expenses"
    /\ LET expenses == LoadExpenses(file).value
       IN  /\ expenses.items # <<>>
           /\ k \in 0..(Len(expenses.items) - 1)
           /\ file' = SaveExpenses(file, ListPop(expenses, k).value)
    /\ message' = PageBanner(page, file')
    /\ last' = [op |-> "delete", before |-> file, effect |-> "saved", index |-> k]
    /\ UNCHANGED <<page, confirm_clear>>

\* Another option k picked in the select box of the Manage page, which needs
\* two options: the script reruns and renders the page, the banner of the last
\* click goes, the flag stays.
SelectOption(k) ==
    /\ page = "Manage Expenses"
    /\ LET expenses == LoadExpenses(file).value
       IN  /\ Len(expenses.items) >= 2
           /\ k \in 0..(Len(expenses.items) - 1)
    /\ message' = PageBanner(page, file)
    /\ last' = [op |-> "select", before |-> file, effect |-> "none", index |-> k]
    /\ UNCHANGED <<file, page, confirm_clear>>

\* "Clear All Expenses": the first click arms the flag, a click with the flag
\* set saves the empty list.
ClickClearAll ==
    /\ page = "Manage Expenses"
    /\ LoadExpenses(file).value.items # <<>>
    /\ IF Truthy(confirm_clear)
       THEN /\ file' = SaveExpenses(file, PyList(<<>>))
            /\ confirm_clear' = "False"
            /\ message' = PageBanner(page, file')
            /\ last' = [op |-> "clear_all", before |-> file, effect |-> "cleared"]
       ELSE /\ confirm_clear' = "True"
            /\ message' = Banner("info",
                            "Click the button again to confirm clearing all expenses")
            /\ last' = [op |-> "clear_all", before |-> file, effect |-> "armed"]
            /\ file' = file
    /\ page' = page

\* "Confirm - Clear All Expenses Permanently", rendered while the flag is set.
ClickConfirm ==
    /\ page = "Manage Expenses"
    /\ LoadExpenses(file).value.items # <<>>
    /\ Truthy(confirm_clear)
    /\ file' = SaveExpenses(file, PyList(<<>>))
    /\ confirm_clear' = "False"
    /\ message' = PageBanner(page, file')
    /\ last' = [op |-> "confirm_clear_btn", before |-> file, effect |-> "cleared"]
    /\ page' = page

Next ==
    \/ \E p \in Pages : Navigate(p)
    \/ \E c \in Categories, a \in Amounts, t \in Descriptions, dt \in Dates :
          SubmitAdd(c, a, t, dt)
    \/ \E k \in 0..(MaxLen - 1) : SelectOption(k)
    \/ \E k \in 0..(MaxLen - 1) : DeleteSelected(k)
    \/ ClickClearAll
    \/ ClickConfirm

Spec == Init /\ [][Next]_vars

(***************************************************************************)
(* The Analytics page's per-category table.                                *)
(***************************************************************************)
\* One row of df.groupby('Category')['Amount'].agg(['sum', 'count', 'mean']);
\* the mean is the fraction Total/Count.
GroupRow(category, total, count) ==
    [Category |-> category, Total |-> total, Count |-> count,
     Average |-> [num |-> total, den |-> count]]

\* The groups after the rows of items, acc holding the groups of the rows before.
RECURSIVE GroupFold(_, _)
GroupFold(items, acc) ==
    IF items = <<>> THEN acc
    ELSE LET c == Get(Head(items), KeyCategory).s
             a == Get(Head(items), KeyAmount).n
         IN  IF \E g \in DOMAIN acc : acc[g].Category = c
             THEN GroupFold(Tail(items),
                    [g \in DOMAIN acc |->
                        IF acc[g].Category = c
                        THEN GroupRow(c, acc[g].Total + a, acc[g].Count + 1)
                        ELSE acc[g]])
             ELSE GroupFold(Tail(items), Append(acc, GroupRow(c, a, 1)))

\* The arrangements of rows in which Total never decreases.
CategoryTotalsAscending(expenses) ==
    LET groups == GroupFold(expenses.items, <<>>)
    IN  { [i \in DOMAIN f |-> groups[f[i]]] : f \in
            { f \in Perms(Len(groups)) :
                \A i, j \in DOMAIN f : i < j => groups[f[i]].Total <= groups[f[j]].Total } }

\* category_totals: the tables .sort_values('sum', ascending=False) can produce,
\* the sort fixing no order among equal sums.
CategoryTotals(expenses) ==
    LET groups == GroupFold(expenses.items, <<>>)
    IN  { [i \in DOMAIN f |-> groups[f[i]]] : f \in
            { f \in Perms(Len(groups)) :
                \A i, j \in DOMAIN f : i < j => groups[f[i]].Total >= groups[f[j]].Total } }

\* analytics_page: nothing but a notice for an empty store, else the table.
AnalyticsPage ==
    /\ page = "Analytics"
    /\ LET expenses == LoadExpenses(file).value
       IN  IF expenses.items = <<>>
           THEN /\ message' = PageBanner(page, file)
                /\ last' = [op |-> "analytics", before |-> file, effect |-> "empty",
                            tables |-> {}]
           ELSE /\ message' = NoMessage
                /\ last' = [op |-> "analytics", before |-> file, effect |-> "table",
                            tables |-> CategoryTotals(expenses)]
    /\ UNCHANGED <<file, page, confirm_clear>>

(***************************************************************************)
(* The store operations called directly on any backing file, and the       *)
(* delete of the Manage page on the stores it lists.                       *)
(***************************************************************************)
MaxStoreLen == 3

MaxAggLen == 3

SeqsUpTo(S, k) == UNION { [1..m -> S] : m \in 0..k }

Lunch == <<"l","u","n","c","h">>

StoreRecords ==
    { NewExpense(<<"f","o","o","d">>, [num |-> 2, den |-> 1], Lunch,
                 [y |-> 2024, m |-> 1, d |-> 2]),
      NewExpense(<<"b","u","s">>, [num |-> 1, den |-> 1], Lunch,
                 [y |-> 2024, m |-> 12, d |-> 1]) }

StoreCollections == { PyList(xs) : xs \in SeqsUpTo(StoreRecords, MaxStoreLen) }

\* JSON texts of collections, the material of the damaged ones.
SampleDocs == { DumpValue(PyList(xs)) : xs \in SeqsUpTo(StoreRecords, 1) }

\* Cut short, or one token lost: no JSON value.
Malformed ==
    UNION { { SubSeq(t, 1, m) : m \in 0..(Len(t) - 1) } \cup
            { RemoveAt(t, m) : m \in 1..Len(t) } : t \in SampleDocs }

\* Content with bytes that are no text.
Undecodable == { <<BadBytes>> } \cup { Append(t, BadBytes) : t \in SampleDocs }

\* JSON values that are no list of expense objects.
NonCollection ==
    { <<NullTok>>, <<NumTok(42)>>, <<StrTok(Lunch)>>,
      <<Punct("{"), Punct("}")>>,
      <<Punct("["), NumTok(1), Punct("]")>>,
      <<Punct("["), NullTok, Punct("]")>> }
    \cup { DumpValue(e) : e \in StoreRecords }

BadStores ==
    { NoFile } \cup
    { [exists |-> TRUE, content |-> t] : t \in Malformed \cup Undecodable \cup NonCollection }

GoodStores == { SaveExpenses(NoFile, c) : c \in StoreCollections }

\* load_expenses() called on whatever the file holds.
CallLoad ==
    /\ last' = [op |-> "load", before |-> file, effect |-> "none",
                result |-> LoadExpenses(file)]
    /\ UNCHANGED <<file, page, confirm_clear, message>>

\* save_expenses(c) over whatever the file holds.
CallSave(c) ==
    /\ file' = SaveExpenses(file, c)
    /\ last' = [op |-> "save", before |-> file, effect |-> "saved", arg |-> c]
    /\ UNCHANGED <<page, confirm_clear, message>>

\* The delete of the Manage page on a store that holds a collection with a
\* record in it (the page returns before the select box on an empty one), with
\* i an option of the select box, range(len(expense_options)): load, pop(i),
\* save and rerun; an IndexError would leave before the save.
CallDeleteAt(i) ==
    /\ LoadExpenses(file).raised = ""
    /\ IsCollection(LoadExpenses(file).value)
    /\ LoadExpenses(file).value.items # <<>>
    /\ i \in 0..(Len(LoadExpenses(file).value.items) - 1)
    /\ LET r == ListPop(LoadExpenses(file).value, i)
       IN  /\ file' = IF r.raised = "" THEN SaveExpenses(file, r.value) ELSE file
           /\ message' = IF r.raised = "" THEN PageBanner(page, file')
                          ELSE Banner("exception", r.raised)
           /\ last' = [op |-> "delete_at", before |-> file,
                       effect |-> IF r.raised = "" THEN "saved" ELSE "raised",
                       index |-> i, raised |-> r.raised]
    /\ UNCHANGED <<page, confirm_clear>>

InitStore ==
    /\ file \in BadStores \cup GoodStores
    /\ page = "Manage Expenses"
    /\ confirm_clear = "absent"
    /\ message = NoMessage
    /\ last = [op |-> "start", before |-> file, effect |-> "none"]

NextStore ==
    \/ CallLoad
    \/ \E c \in StoreCollections : CallSave(c)
    \/ \E i \in 0..(MaxStoreLen - 1) : CallDeleteAt(i)

SpecStore == InitStore /\ [][NextStore]_vars

(***************************************************************************)
(* The Add Expense form submitted once, on stores of up to MaxStoreLen      *)
(* records and with categories of letters within and beyond ASCII.         *)
(***************************************************************************)
AddCategories ==
    { <<>>, <<"f","1">>, <<"f"," ","d">>, <<"f","O","O","d">>, <<"ß">>,
      <<"a","Ü">>, <<"ü","b","e","r">>, <<"ǆ","a">>, <<"É","c","o","l","e">>,
      <<"ƻ","Ñ","Ǆ">>, <<"Α","Σ">>, <<"Σ","ʰ","Σ","α">>, <<"µ","ª","Σ">> }

CallAdd(category, amount, description, expense_date) ==
    /\ last.op = "start"
    /\ SubmitAdd(category, amount, description, expense_date)

InitAdd ==
    /\ file \in { NoFile } \cup GoodStores
    /\ page = "Add Expense"
    /\ confirm_clear = "absent"
    /\ message = NoMessage
    /\ last = [op |-> "start", before |-> file, effect |-> "none"]

NextAdd ==
    \E c \in AddCategories, a \in Amounts, t \in Descriptions, dt \in Dates :
        CallAdd(c, a, t, dt)

SpecAdd == InitAdd /\ [][NextAdd]_vars

(***************************************************************************)
(* The Analytics page over stores of several categories.                   *)
(***************************************************************************)
AggRecords ==
    { NewExpense(c, a, Lunch, [y |-> 2024, m |-> 1, d |-> 2]) :
        c \in { <<"f","o","o","d">>, <<"b","u","s">>, <<"r","e","n","t">> },
        a \in { [num |-> 1, den |-> 1], [num |-> 2, den |-> 1] } }

AggCollections == { PyList(xs) : xs \in SeqsUpTo(AggRecords, MaxAggLen) }

InitAgg ==
    /\ file \in { SaveExpenses(NoFile, c) : c \in AggCollections }
    /\ page = "Analytics"
    /\ confirm_clear = "absent"
    /\ message = NoMessage
    /\ last = [op |-> "start", before |-> file, effect |-> "none"]

NextAgg == AnalyticsPage

SpecAgg == InitAgg /\ [][NextAgg]_vars

(***************************************************************************)
(* Properties.                                                             *)
(***************************************************************************)
Letters ==
    { r.ch : r \in { x \in LetterTable : x.class \in {"Lu", "Ll", "Lt", "Lm", "Lo"} } }

\* The letters that are not lower case, and those that are not upper or title case.
NotLowerLetters ==
    { r.ch : r \in { x \in LetterTable : x.class \in {"Lu", "Lt", "Lm", "Lo"} } }

NotUpperLetters ==
    { r.ch : r \in { x \in LetterTable : x.class \in {"Ll", "Lm", "Lo"} } }

\* A string with the case distinctions removed (str.casefold).
RECURSIVE Fold(_)
Fold(s) ==
    IF s = <<>> THEN <<>>
    ELSE (CASE Head(s) = "ß" -> <<"s", "s">>
            [] Head(s) = "ς" -> <<"σ">>
            [] Head(s) = "µ" -> <<"μ">>
            [] OTHER -> LetterOf(Head(s)).lower) \o Fold(Tail(s))

\* The records of a store, as load_expenses returns them.
RecordsOf(f) == LoadExpenses(f).value.items

CategoryInvalid(c) == c = <<>> \/ \E i \in DOMAIN c : c[i] \notin Letters

AmountInvalid(a) == a.num <= 0

DescriptionInvalid(t) == Len(t) < 5

\* Sum of the amounts of the records at the positions in S.
RECURSIVE SumAmounts(_, _)
SumAmounts(items, S) ==
    IF S = {} THEN 0
    ELSE LET i == CHOOSE x \in S : TRUE
         IN  Get(items[i], KeyAmount).n + SumAmounts(items, S \ {i})

RECURSIVE SeqSum(_)
SeqSum(xs) == IF xs = <<>> THEN 0 ELSE Head(xs) + SeqSum(Tail(xs))

\* C1: after any sequence of add, delete and clear-all from an empty store, every
\* persisted record satisfies the three validators: its category is non-empty and
\* alphabetic, its amount is an integer greater than 0, and its description has at
\* least 5 characters.
C1_PersistedRecordsValid ==
    \A i \in DOMAIN RecordsOf(file) :
        LET e == RecordsOf(file)[i]
        IN  /\ ~CategoryInvalid(Get(e, KeyCategory).s)
            /\ Get(e, KeyAmount).ty = "int"
            /\ Get(e, KeyAmount).n > 0
            /\ ~DescriptionInvalid(Get(e, KeyDescription).s)

\* C2: the store is cleared only by a clear trigger that immediately follows the
\* clear trigger which armed the confirmation flag, with no other user action
\* between the two.
C2_ClearOnlyAfterConsecutiveTriggers ==
    [][ last'.effect = "cleared" =>
            (last.op = "clear_all" /\ last.effect = "armed") ]_vars

\* C4: for 0 <= i < N, delete_at(i) leaves a persisted collection of size N-1 that
\* is the original without the element at position i, the other records unchanged
\* and in their order.
C4_DeleteRemovesExactlyIndex ==
    last.op = "delete_at" =>
        LET old == RecordsOf(last.before)
            new == LoadExpenses(file)
            i   == last.index
        IN  (0 <= i /\ i < Len(old)) =>
                /\ last.raised = ""
                /\ new.raised = ""
                /\ new.value.ty = "list"
                /\ Len(new.value.items) = Len(old) - 1
                /\ \A j \in 1..(Len(old) - 1) :
                      new.value.items[j] = IF j <= i THEN old[j] ELSE old[j + 1]

C4_Witness ==
    /\ last.op = "delete_at"
    /\ last.index = 1
    /\ Len(RecordsOf(last.before)) = 3
    /\ RecordsOf(last.before)[1] # RecordsOf(last.before)[2]
    /\ RecordsOf(last.before)[1] # RecordsOf(last.before)[3]
    /\ RecordsOf(file) = <<RecordsOf(last.before)[1], RecordsOf(last.before)[3]>>

\* C5: add checks category, then amount, then description: with at least one
\* invalid field the error shown is that of the first failing field in this
\* order, and the persisted collection is unchanged.
C5_FirstFailingErrorNoWrite ==
    (/\ last.op = "add"
     /\ \/ CategoryInvalid(last.category)
        \/ AmountInvalid(last.amount)
        \/ DescriptionInvalid(last.description)) =>
        /\ message.kind = "error"
        /\ message.text =
             IF last.category = <<>> THEN "Category cannot be empty."
             ELSE IF CategoryInvalid(last.category)
                  THEN "Category must contain only letters."
             ELSE IF AmountInvalid(last.amount) THEN "Amount must be greater than 0."
             ELSE IF last.description = <<>> THEN "Description cannot be empty."
             ELSE "Description must be at least 5 characters."
        /\ file = last.before
        /\ last.effect = "rejected"

C5_Witness ==
    /\ last.op = "add"
    /\ ~CategoryInvalid(last.category)
    /\ AmountInvalid(last.amount)
    /\ DescriptionInvalid(last.description)
    /\ message.text = "Amount must be greater than 0."
    /\ RecordsOf(file) # <<>>

\* C6: a successful add appends exactly one record at the tail (category
\* capitalized: the given letters with the first in upper or title case and the
\* rest in lower case; amount truncated to an integer; description and date as
\* given) and leaves every earlier record unchanged and in place.
C6_AddAppendsAtTail ==
    (/\ last.op = "add"
     /\ ~CategoryInvalid(last.category)
     /\ ~AmountInvalid(last.amount)
     /\ ~DescriptionInvalid(last.description)) =>
        LET old == RecordsOf(last.before)
            new == RecordsOf(file)
            e   == new[Len(new)]
            cat == Get(e, KeyCategory).s
            amt == Get(e, KeyAmount).n
            iso == Get(e, KeyDate).s
        IN  /\ LoadExpenses(file).raised = ""
            /\ Len(new) = Len(old) + 1
            /\ \A j \in DOMAIN old : new[j] = old[j]
            /\ Len(e.items) = 4
            /\ Fold(cat) = Fold(last.category)
            /\ \A j \in DOMAIN cat :
                  cat[j] \in (IF j = 1 THEN NotLowerLetters ELSE NotUpperLetters)
            /\ Get(e, KeyAmount).ty = "int"
            /\ amt * last.amount.den <= last.amount.num
            /\ last.amount.num < (amt + 1) * last.amount.den
            /\ Get(e, KeyDescription).s = last.description
            /\ Len(iso) = 10 /\ iso[5] = "-" /\ iso[8] = "-"
            /\ ToDatetime(iso) = last.date

C6_Witness ==
    /\ last.op = "add"
    /\ last.effect = "saved"
    /\ Len(RecordsOf(last.before)) = 2
    /\ Len(RecordsOf(file)) = 3
    /\ last.amount.num % last.amount.den # 0
    /\ last.amount.num > last.amount.den
    /\ Len(Get(RecordsOf(file)[3], KeyCategory).s) # Len(last.category)
    /\ RecordsOf(file)[3] # RecordsOf(file)[1]

\* C7: load never fails the caller on a bad store: with the backing file absent or
\* its content no well-formed collection document, load returns the empty
\* collection.
C7_BadStoreLoadsEmpty ==
    (last.op = "load" /\ last.before \in BadStores) =>
        (last.result.raised = "" /\ last.result.value = PyList(<<>>))

\* C8: for any well-formed collection c, the empty one included, save(c) followed
\* by load() returns c, same records in the same order, whatever the store held.
C8_SaveLoadRoundTrip ==
    last.op = "save" =>
        /\ LoadExpenses(file).raised = ""
        /\ LoadExpenses(file).value = last.arg

C8_Witness ==
    /\ last.op = "save"
    /\ last.before.exists
    /\ last.before.content \in Malformed
    /\ last.before.content # <<>>
    /\ Len(last.arg.items) = 2
    /\ last.arg.items[1] # last.arg.items[2]
    /\ LoadExpenses(file).value = last.arg

\* C9: for a non-empty collection the per-category table has one row per category
\* present, each with the sum and the number of the records of exactly that stored
\* category, rows in descending order of sum; the sums add up to the total and the
\* counts to the number of records.
C9_CategoryTotalsCorrect ==
    (last.op = "analytics" /\ RecordsOf(last.before) # <<>>) =>
        LET items == RecordsOf(last.before)
            cats == { Get(items[i], KeyCategory).s : i \in DOMAIN items }
            rowsOf(c) == { i \in DOMAIN items : Get(items[i], KeyCategory).s = c }
        IN  /\ last.tables # {}
            /\ \A t \in last.tables :
                  /\ Len(t) = Cardinality(cats)
                  /\ { t[r].Category : r \in DOMAIN t } = cats
                  /\ \A r \in DOMAIN t :
                        /\ t[r].Total = SumAmounts(items, rowsOf(t[r].Category))
                        /\ t[r].Count = Cardinality(rowsOf(t[r].Category))
                  /\ \A r1, r2 \in DOMAIN t : r1 < r2 => t[r1].Total >= t[r2].Total
                  /\ SeqSum([r \in DOMAIN t |-> t[r].Total])
                        = SumAmounts(items, DOMAIN items)
                  /\ SeqSum([r \in DOMAIN t |-> t[r].Count]) = Len(items)

C9_Witness ==
    /\ last.op = "analytics"
    /\ Len(RecordsOf(last.before)) = 3
    /\ \E t \in last.tables :
          /\ Len(t) = 2
          /\ t[1].Count = 2
          /\ t[1].Total = 3
          /\ t[2].Total = 1
          /\ Get(RecordsOf(last.before)[1], KeyCategory).s = t[2].Category

\* C10: Delete on the Manage page with the k-th listed option selected removes
\* exactly the record shown as option k, the k-th record of the date-descending
\* listing, whatever the order in which the records were added.
C10_DeleteRemovesListedRecord ==
    last.op = "delete" =>
        \E f \in DateDescending(LoadExpenses(last.before).value) :
            RecordsOf(file) = RemoveAt(RecordsOf(last.before), f[last.index + 1])

====
